---- MODULE Spec2Model ----
(***************************************************************************)
(* State-machine model of src/app/static/public/js/voice.js: the voice     *)
(* session controller (startSession / stopSession / resetUI), the          *)
(* transcript code (handleTranscription, handleDataMessage,                *)
(* appendTranscriptBubble, sendTextMessage, clearTranscript), the          *)
(* microphone toggle and the audio elements of the subscribed tracks.      *)
(*                                                                         *)
(* JavaScript is single threaded: every action below is one run of a       *)
(* handler from its entry (or from the await it resumes after) to its next *)
(* await or return.                                                        *)
(***************************************************************************)
EXTENDS Naturals, Sequences, FiniteSets, TLC

\* ---------------------------------------------------------------- bounds
\* Entry objects created in one run.
MaxEntries == 2
\* Longest text a delta may accumulate (in characters).
MaxTextLen == 5
\* Largest value Date.now() takes.
MaxClock == 1
\* startSession invocations in one run.
MaxAttempts == 2
\* stopSession invocations in one run.
MaxStops == 2
\* setMicrophoneEnabled calls not yet settled.
MaxMicCalls == 2

\* ------------------------------------------------------------- constants
Null == 0
\* null / '' : a falsy identity
NoIdentity == ""
\* identity the server gives the local participant, and the remote agent's
LocalIdentity == "me"
RemoteIdentity == "grok"

TypeCompleted == "conversation.item.input_audio_transcription.completed"
TypeDelta == "response.audio_transcript.delta"
TypeDone == "response.audio_transcript.done"
\* the name the protocol description uses for the completed message; the
\* code compares data.type with TypeCompleted, so this one is unrecognized
TypeCompletedShort == "input_audio_transcription.completed"
\* a missing or empty type field (falsy)
NoType == ""

\* Map keys are strings; <<prefix, n>> stands for prefix + n, and an id that
\* arrives from outside is <<id, 0>>.
Key(prefix, n) == <<prefix, n>>
ExtId(s) == <<s, 0>>
\* a missing or empty id (falsy)
NoId == <<"", 0>>

VARIABLES
    \* ---- session / UI
    status,                  \* class of statusText: "" | connecting | connected | error
    startDisabled,           \* startBtn.disabled
    buttonsConnected,        \* setButtons(true): startBtn hidden, stopBtn shown
    textInputVisible,        \* textInputRow shown
    micUI,                   \* updateMicUI(enabled)
    localParticipantIdentity,
    room,                    \* the global `room`: Null or the room object of an attempt
    pc,                      \* pc[a]: where startSession invocation a is suspended
    rstate,                  \* rstate[a]: state of the Room object attempt a created
    stopPending,             \* stopSession invocations suspended in await room.disconnect()
    stopped,                 \* history: stopSession ran while the status was connecting
                             \* and attempt a was outstanding
    navigated,               \* window.location.href = '/login' was assigned
    \* ---- transcript
    placeholder,             \* the .transcript-empty element is in the container
    dom,                     \* the .transcript-msg children of the container, in order
    entries,                 \* every entry object created so far -> its fields
    segmentElements,         \* the Map: key -> entry object
    lastUserSpeechEntry,     \* Null or an entry object
    published,               \* publishData calls: <<topic, payload>>
    now,                     \* Date.now()
    uncaught,                \* an exception escaped a transport event handler
    toast,                   \* the message of the last toast(), "" before the first
    \* ---- microphone and audio output
    pubRoom,                 \* pubRoom[a]: the room attempt a publishes its track to
    micEnabled,              \* micEnabled[r]: room r's localParticipant.isMicrophoneEnabled
    micCalls,                \* setMicrophoneEnabled calls not yet settled: <<room, enabled>>
    subscribed,              \* tracks a TrackSubscribed event was delivered for
    audio,                   \* the audio elements in audioRoot (one per track)
    playing,                 \* elements whose first play() has not settled
    listeners,               \* document listeners: <<element, event type>> runs its resume
    retries,                 \* retries[e]: play() calls made by element e's resume
    handlers,                \* handlers[r]: the events room r has a handler registered for
    tables                   \* the transcript kept in the specified pair of tables

sessionVars == <<status, startDisabled, buttonsConnected, textInputVisible, micUI,
                 localParticipantIdentity, room, pc, rstate, stopPending, stopped,
                 navigated>>
transcriptVars == <<placeholder, dom, entries, segmentElements, lastUserSpeechEntry>>
mediaVars == <<micEnabled, micCalls, subscribed, audio, playing, listeners, retries>>
vars == <<sessionVars, transcriptVars, published, now, uncaught, toast, pubRoom,
          mediaVars, handlers, tables>>

Attempts == 1..MaxAttempts
\* the remote tracks of a run
Tracks == {"t1", "t2"}

\* ------------------------------------------------------------ transcript
\* The transcript's state as one value, so that the handlers are functions.
TState ==
    [placeholder |-> placeholder, dom |-> dom, entries |-> entries,
     segmentElements |-> segmentElements,
     lastUserSpeechEntry |-> lastUserSpeechEntry]

SetTranscript(T) ==
    /\ placeholder' = T.placeholder
    /\ dom' = T.dom
    /\ entries' = T.entries
    /\ segmentElements' = T.segmentElements
    /\ lastUserSpeechEntry' = T.lastUserSpeechEntry

EmptyMap == [k \in {} |-> Null]

clearTranscript_keepLast(T) ==
    [T EXCEPT !.placeholder = TRUE, !.dom = <<>>, !.segmentElements = EmptyMap]

clearTranscript_keepMap(T) ==
    [T EXCEPT !.placeholder = TRUE, !.dom = <<>>, !.lastUserSpeechEntry = Null]

\* innerHTML = placeholder: the entry elements leave the container (the
\* objects themselves stay in `entries`, detached)
clearTranscript(T) ==
    [T EXCEPT !.placeholder = TRUE,
              !.dom = <<>>,
              !.segmentElements = EmptyMap,
              !.lastUserSpeechEntry = Null]

hideTranscriptEmpty(T) == [T EXCEPT !.placeholder = FALSE]

\* the identity of the next object created
Fresh(T) == Cardinality(DOMAIN T.entries) + 1

NewEntry_prepend(T, id, role, text, interim) ==
    LET h == Fresh(T) IN
    [T EXCEPT !.dom = <<h>> \o @,
              !.entries = (h :> [role |-> role, segmentId |-> id, text |-> text,
                                 bubble |-> text, interim |-> interim]) @@ @,
              !.segmentElements = (id :> h) @@ @]

\* document.createElement + appendChild + segmentElements.set(id, {element, text})
NewEntry(T, id, role, text, interim) ==
    LET h == Fresh(T) IN
    [T EXCEPT !.dom = Append(@, h),
              !.entries = (h :> [role |-> role, segmentId |-> id, text |-> text,
                                 bubble |-> text, interim |-> interim]) @@ @,
              !.segmentElements = (id :> h) @@ @]

SegStep_flagFollows(T, seg, isLocal) ==
    IF seg.id \in DOMAIN T.segmentElements
    THEN LET h == T.segmentElements[seg.id] IN
         [T EXCEPT !.entries[h] = [@ EXCEPT !.bubble = seg.text,
                                            !.interim = ~seg.final,
                                            !.text = seg.text]]
    ELSE LET T1 == NewEntry(T, seg.id, IF isLocal THEN "user" ELSE "assistant",
                            seg.text, ~seg.final)
         IN  IF isLocal THEN [T1 EXCEPT !.lastUserSpeechEntry = Fresh(T)] ELSE T1

\* the loop body with lastUserSpeechEntry set only while nothing is pending
SegStep_keepsFirstPending(T, seg, isLocal) ==
    IF seg.id \in DOMAIN T.segmentElements
    THEN LET h == T.segmentElements[seg.id] IN
         [T EXCEPT !.entries[h] = [@ EXCEPT !.bubble = seg.text,
                                            !.interim = IF seg.final THEN FALSE ELSE @,
                                            !.text = seg.text]]
    ELSE LET T1 == NewEntry(T, seg.id, IF isLocal THEN "user" ELSE "assistant",
                            seg.text, ~seg.final)
         IN  IF isLocal /\ T.lastUserSpeechEntry = Null
             THEN [T1 EXCEPT !.lastUserSpeechEntry = Fresh(T)] ELSE T1

\* the loop body with every new entry, of either role, made the pending one
SegStep_pendingAnyRole(T, seg, isLocal) ==
    IF seg.id \in DOMAIN T.segmentElements
    THEN LET h == T.segmentElements[seg.id] IN
         [T EXCEPT !.entries[h] = [@ EXCEPT !.bubble = seg.text,
                                            !.interim = IF seg.final THEN FALSE ELSE @,
                                            !.text = seg.text]]
    ELSE LET T1 == NewEntry(T, seg.id, IF isLocal THEN "user" ELSE "assistant",
                            seg.text, ~seg.final)
         IN  [T1 EXCEPT !.lastUserSpeechEntry = Fresh(T)]

\* The body of the for loop of handleTranscription.
SegStep(T, seg, isLocal) ==
    IF seg.id \in DOMAIN T.segmentElements
    THEN LET h == T.segmentElements[seg.id] IN
         [T EXCEPT !.entries[h] = [@ EXCEPT !.bubble = seg.text,
                                            !.interim = IF seg.final THEN FALSE ELSE @,
                                            !.text = seg.text]]
    ELSE LET T1 == NewEntry(T, seg.id, IF isLocal THEN "user" ELSE "assistant",
                            seg.text, ~seg.final)
         IN  IF isLocal THEN [T1 EXCEPT !.lastUserSpeechEntry = Fresh(T)] ELSE T1

RECURSIVE SegLoop(_, _, _)
SegLoop(T, segments, isLocal) ==
    IF segments = <<>> THEN T
    ELSE SegLoop(SegStep(T, Head(segments), isLocal), Tail(segments), isLocal)

IsLocal_never(participant, identity) == FALSE

\* participant && localParticipantIdentity && participant.identity === localParticipantIdentity
IsLocal(participant, identity) ==
    /\ participant # NoIdentity
    /\ identity # NoIdentity
    /\ participant = identity

handleTranscription(T, segments, participant, identity) ==
    IF segments = <<>> THEN T
    ELSE SegLoop(hideTranscriptEmpty(T), segments, IsLocal(participant, identity))

appendTranscriptBubble(T, id, role, text, interim) ==
    NewEntry(hideTranscriptEmpty(T), id, role, text, interim)

\* A payload is the decoded text of a data message: empty, not JSON, or the
\* JSON text of a value.  JSON.parse either throws or yields the value.
JSONparse(text) ==
    IF text.form = "notjson" THEN [threw |-> TRUE, data |-> text.data]
    ELSE [threw |-> FALSE, data |-> text.data]

UpdateEntry_keepsInterim(T, h, text) ==
    [T EXCEPT !.entries[h] = [@ EXCEPT !.bubble = text, !.text = text]]

UpdateEntry(T, h, text) ==
    [T EXCEPT !.entries[h] = [@ EXCEPT !.bubble = text, !.interim = FALSE, !.text = text]]

Completed_noRekey(T, data, t) ==
    IF data.transcript = "" THEN T
    ELSE LET id == IF data.item_id # NoId THEN data.item_id ELSE Key("user-", t) IN
         IF id \in DOMAIN T.segmentElements
         THEN UpdateEntry(T, T.segmentElements[id], data.transcript)
         ELSE IF T.lastUserSpeechEntry # Null
         THEN [UpdateEntry(T, T.lastUserSpeechEntry, data.transcript)
                  EXCEPT !.lastUserSpeechEntry = Null]
         ELSE appendTranscriptBubble(T, id, "user", data.transcript, FALSE)

\* the completed branch with the pending reference kept after a re-key
Completed_keepsPending(T, data, t) ==
    IF data.transcript = "" THEN T
    ELSE LET id == IF data.item_id # NoId THEN data.item_id ELSE Key("user-", t) IN
         IF id \in DOMAIN T.segmentElements
         THEN UpdateEntry(T, T.segmentElements[id], data.transcript)
         ELSE IF T.lastUserSpeechEntry # Null
         THEN [UpdateEntry(T, T.lastUserSpeechEntry, data.transcript)
                  EXCEPT !.segmentElements = (id :> T.lastUserSpeechEntry) @@ @]
         ELSE appendTranscriptBubble(T, id, "user", data.transcript, FALSE)

\* type === 'conversation.item.input_audio_transcription.completed'
Completed(T, data, t) ==
    IF data.transcript = "" THEN T
    ELSE LET id == IF data.item_id # NoId THEN data.item_id ELSE Key("user-", t) IN
         IF id \in DOMAIN T.segmentElements
         THEN UpdateEntry(T, T.segmentElements[id], data.transcript)
         ELSE IF T.lastUserSpeechEntry # Null
         THEN [UpdateEntry(T, T.lastUserSpeechEntry, data.transcript)
                  EXCEPT !.segmentElements = (id :> T.lastUserSpeechEntry) @@ @,
                         !.lastUserSpeechEntry = Null]
         ELSE appendTranscriptBubble(T, id, "user", data.transcript, FALSE)

\* type === 'response.audio_transcript.delta'
Delta(T, data, t) ==
    IF data.delta = "" THEN T
    ELSE LET id == IF data.item_id # NoId THEN data.item_id ELSE Key("grok-", t) IN
         IF id \in DOMAIN T.segmentElements
         THEN LET h == T.segmentElements[id] IN
              [T EXCEPT !.entries[h] = [@ EXCEPT !.text = @ \o data.delta,
                                                 !.bubble = T.entries[h].text \o data.delta]]
         ELSE appendTranscriptBubble(T, id, "assistant", data.delta, TRUE)

Done_appends(T, data, t) ==
    LET id == IF data.item_id # NoId THEN data.item_id ELSE Key("grok-", t) IN
    IF id \in DOMAIN T.segmentElements
    THEN LET h == T.segmentElements[id] IN
         [T EXCEPT !.entries[h] = [@ EXCEPT !.text = @ \o data.transcript,
                                            !.bubble = T.entries[h].text \o data.transcript,
                                            !.interim = FALSE]]
    ELSE IF data.transcript # ""
    THEN appendTranscriptBubble(T, id, "assistant", data.transcript, FALSE)
    ELSE T

\* type === 'response.audio_transcript.done'
Done(T, data, t) ==
    LET id == IF data.item_id # NoId THEN data.item_id ELSE Key("grok-", t) IN
    IF id \in DOMAIN T.segmentElements
    THEN LET h == T.segmentElements[id] IN
         [T EXCEPT !.entries[h] =
             [@ EXCEPT !.text = IF data.transcript # "" THEN data.transcript ELSE @,
                       !.bubble = IF data.transcript # "" THEN data.transcript ELSE @,
                       !.interim = FALSE]]
    ELSE IF data.transcript # ""
    THEN appendTranscriptBubble(T, id, "assistant", data.transcript, FALSE)
    ELSE T

\* the dispatch with a message that has no item_id dropped
Dispatch_needsId(T, data, t) ==
    IF data.kind # "object" \/ data.type = NoType \/ data.item_id = NoId THEN T
    ELSE IF data.type = TypeCompleted THEN Completed(T, data, t)
    ELSE IF data.type = TypeDelta THEN Delta(T, data, t)
    ELSE IF data.type = TypeDone THEN Done(T, data, t)
    ELSE T

Dispatch(T, data, t) ==
    IF data.kind # "object" \/ data.type = NoType THEN T
    ELSE IF data.type = TypeCompleted THEN Completed(T, data, t)
    ELSE IF data.type = TypeDelta THEN Delta(T, data, t)
    ELSE IF data.type = TypeDone THEN Done(T, data, t)
    ELSE T

handleDataMessage_noCatch(T, text, t) ==
    IF text.form = "empty" THEN [T |-> T, escaped |-> FALSE]
    ELSE LET parsed == JSONparse(text) IN
         IF parsed.threw THEN [T |-> T, escaped |-> TRUE]
         ELSE [T |-> Dispatch(T, parsed.data, t), escaped |-> FALSE]

\* The new transcript, and whether an exception escaped to the caller.
handleDataMessage(T, text, t) ==
    IF text.form = "empty" THEN [T |-> T, escaped |-> FALSE]
    ELSE LET parsed == JSONparse(text) IN
         IF parsed.threw THEN [T |-> T, escaped |-> FALSE]
         ELSE [T |-> Dispatch(T, parsed.data, t), escaped |-> FALSE]

\* ------------------------------------------------ the specified pair of tables
\* The transcript as the specification's reconciler keeps it: the entries in
\* display order, a table from transport segment ids and a table from agent
\* item_ids to entries, and the pending user correction.  A segment is looked
\* up in the first table, a protocol message in the second; everything else
\* (empty texts, generated keys, typed messages) is as in the handlers above.
\* `tables` follows the same events as the transcript until the two show
\* different entries; from then on it only records that they differed.
TablesEmpty ==
    [entries |-> <<>>, transportIds |-> EmptyMap, protocolIds |-> EmptyMap,
     pending |-> Null, agree |-> TRUE]

TablesDiffer == [TablesEmpty EXCEPT !.agree = FALSE]

TablesNew(R, role, text, interim) ==
    [R EXCEPT !.entries = Append(@, [role |-> role, text |-> text, interim |-> interim])]

TablesSegStep(R, seg, isLocal) ==
    IF seg.id \in DOMAIN R.transportIds
    THEN LET h == R.transportIds[seg.id] IN
         [R EXCEPT !.entries[h] = [@ EXCEPT !.interim = IF seg.final THEN FALSE ELSE @,
                                            !.text = seg.text]]
    ELSE LET h == Len(R.entries) + 1
             R1 == [TablesNew(R, IF isLocal THEN "user" ELSE "assistant", seg.text,
                              ~seg.final)
                       EXCEPT !.transportIds = (seg.id :> h) @@ @]
         IN  IF isLocal THEN [R1 EXCEPT !.pending = h] ELSE R1

RECURSIVE TablesSegLoop(_, _, _)
TablesSegLoop(R, segments, isLocal) ==
    IF segments = <<>> THEN R
    ELSE TablesSegLoop(TablesSegStep(R, Head(segments), isLocal), Tail(segments), isLocal)

TablesTranscription(R, segments, participant, identity) ==
    TablesSegLoop(R, segments, IsLocal(participant, identity))

TablesUpdate(R, h, text) ==
    [R EXCEPT !.entries[h] = [@ EXCEPT !.interim = FALSE, !.text = text]]

TablesCompleted(R, data, t) ==
    IF data.transcript = "" THEN R
    ELSE LET id == IF data.item_id # NoId THEN data.item_id ELSE Key("user-", t) IN
         IF id \in DOMAIN R.protocolIds
         THEN TablesUpdate(R, R.protocolIds[id], data.transcript)
         ELSE IF R.pending # Null
         THEN [TablesUpdate(R, R.pending, data.transcript)
                  EXCEPT !.protocolIds = (id :> R.pending) @@ @,
                         !.pending = Null]
         ELSE [TablesNew(R, "user", data.transcript, FALSE)
                  EXCEPT !.protocolIds = (id :> Len(R.entries) + 1) @@ @]

TablesDelta(R, data, t) ==
    IF data.delta = "" THEN R
    ELSE LET id == IF data.item_id # NoId THEN data.item_id ELSE Key("grok-", t) IN
         IF id \in DOMAIN R.protocolIds
         THEN [R EXCEPT !.entries[R.protocolIds[id]].text = @ \o data.delta]
         ELSE [TablesNew(R, "assistant", data.delta, TRUE)
                  EXCEPT !.protocolIds = (id :> Len(R.entries) + 1) @@ @]

TablesDone(R, data, t) ==
    LET id == IF data.item_id # NoId THEN data.item_id ELSE Key("grok-", t) IN
    IF id \in DOMAIN R.protocolIds
    THEN LET h == R.protocolIds[id] IN
         [R EXCEPT !.entries[h] =
             [@ EXCEPT !.text = IF data.transcript # "" THEN data.transcript ELSE @,
                       !.interim = FALSE]]
    ELSE IF data.transcript # ""
    THEN [TablesNew(R, "assistant", data.transcript, FALSE)
             EXCEPT !.protocolIds = (id :> Len(R.entries) + 1) @@ @]
    ELSE R

TablesMessage(R, text, t) ==
    IF text.form = "empty" \/ JSONparse(text).threw THEN R
    ELSE LET data == JSONparse(text).data IN
         IF data.kind # "object" \/ data.type = NoType THEN R
         ELSE IF data.type = TypeCompleted THEN TablesCompleted(R, data, t)
         ELSE IF data.type = TypeDelta THEN TablesDelta(R, data, t)
         ELSE IF data.type = TypeDone THEN TablesDone(R, data, t)
         ELSE R

\* a typed message's entry is filed in neither table
TablesTyped(R, text) == TablesNew(R, "user", text, FALSE)

\* what the transcript container shows: role, text and interim flag of its
\* entries, in order
Shown ==
    [i \in 1..Len(dom) |-> [role |-> entries[dom[i]].role,
                            text |-> entries[dom[i]].text,
                            interim |-> entries[dom[i]].interim]]

\* the pair of tables takes the step to R, and is compared with the
\* transcript container after the step
Follow(R) == IF tables.agree /\ R.entries = Shown' THEN R ELSE TablesDiffer

\* ------------------------------------------------------------ text input
\* String.prototype.trim on the texts the model types.
Trim(text) ==
    IF text \in {"", " "} THEN ""
    ELSE IF text = " hi " THEN "hi"
    ELSE text

\* ----------------------------------------------------------------- session
resetUI_keepsAudio ==
    /\ status' = ""
    /\ buttonsConnected' = FALSE
    /\ startDisabled' = FALSE
    /\ textInputVisible' = FALSE
    /\ micUI' = TRUE
    /\ audio' = audio
    /\ localParticipantIdentity' = NoIdentity

resetUI ==
    /\ status' = ""
    /\ buttonsConnected' = FALSE
    /\ startDisabled' = FALSE
    /\ textInputVisible' = FALSE
    /\ micUI' = TRUE
    /\ audio' = {}
    /\ localParticipantIdentity' = NoIdentity

Resume_removesOwn(type) ==
    /\ retries' = [e \in Tracks |->
                      IF <<e, type>> \in listeners THEN retries[e] + 1 ELSE retries[e]]
    /\ listeners' = {l \in listeners : l[2] # type}

\* A click or touchstart reaches the document: every resume registered for
\* that event type runs: it calls play() on its element and removes both of
\* its listeners.
Resume(type) ==
    /\ retries' = [e \in Tracks |->
                      IF <<e, type>> \in listeners THEN retries[e] + 1 ELSE retries[e]]
    /\ listeners' = {l \in listeners : <<l[1], type>> \notin listeners}

\* room.localParticipant.identity: assigned by the server when the room connects
IdentityOf(r, rs) ==
    IF rs[r] \in {"connected", "ended"} THEN LocalIdentity ELSE NoIdentity

\* attempts between their start and the continuation after room.connect
Outstanding == {"key", "mic", "fetch", "json", "connect"}

\* The texts shown to the user, in English.
\* '请先配置 Public Key'
MsgNoKey == "configure the Public Key first"
\* the Error of ensureMicSupport
MsgNoMicSupport == "this environment does not support the microphone"
\* `获取 Token 失败: ${response.status}`
MsgTokenFailed(code) == "fetching the token failed: " \o ToString(code)
\* '连接失败', used when the error carries no message
MsgFallback == "connection failed"
\* '语音连接成功'
MsgSuccess == "voice connected"
\* '文字发送失败' and '请先连接语音会话'
MsgSendFailed == "sending the text failed"
MsgNotConnected == "connect the voice session first"
\* messages of errors thrown by the collaborators; a connect error may
\* carry none
MsgKeyError == "public key check failed"
MsgDenied == "Permission denied"
MsgNetwork == "Failed to fetch"
MsgBadJson == "Unexpected end of JSON input"
MsgPublishError == "could not publish the track"
NoMessage == ""

\* err && err.message ? err.message : '连接失败'
ErrorMessage(msg) == IF msg # NoMessage THEN msg ELSE MsgFallback

Catch_retries(a, msg) ==
    /\ toast' = ErrorMessage(msg)
    /\ status' = "error"
    /\ startDisabled' = FALSE
    /\ pc' = [pc EXCEPT ![a] = "key"]

Catch_silent(a, msg) ==
    /\ status' = "error"
    /\ startDisabled' = FALSE
    /\ pc' = [pc EXCEPT ![a] = "done"]
    /\ UNCHANGED toast

\* the catch block of startSession
Catch(a, msg) ==
    /\ toast' = ErrorMessage(msg)
    /\ status' = "error"
    /\ startDisabled' = FALSE
    /\ pc' = [pc EXCEPT ![a] = "done"]

Init ==
    /\ status = ""
    /\ startDisabled = FALSE
    /\ buttonsConnected = FALSE
    /\ textInputVisible = FALSE
    /\ micUI = TRUE
    /\ localParticipantIdentity = NoIdentity
    /\ room = Null
    /\ pc = [a \in Attempts |-> "idle"]
    /\ rstate = [a \in Attempts |-> "none"]
    /\ stopPending = 0
    /\ stopped = [a \in Attempts |-> FALSE]
    /\ navigated = FALSE
    /\ placeholder = TRUE
    /\ dom = <<>>
    /\ entries = EmptyMap
    /\ segmentElements = EmptyMap
    /\ lastUserSpeechEntry = Null
    /\ published = <<>>
    /\ now = 0
    /\ uncaught = FALSE
    /\ toast = NoMessage
    /\ pubRoom = [a \in Attempts |-> Null]
    /\ micEnabled = [a \in Attempts |-> FALSE]
    /\ micCalls = <<>>
    /\ subscribed = {}
    /\ audio = {}
    /\ playing = {}
    /\ listeners = {}
    /\ retries = [e \in Tracks |-> 0]
    /\ handlers = [a \in Attempts |-> {}]
    /\ tables = TablesEmpty

\* startBtn click: startSession up to await ensurePublicKey()
StartClick ==
    /\ ~navigated /\ ~buttonsConnected /\ ~startDisabled
    /\ \E a \in Attempts :
          /\ pc[a] = "idle"
          /\ \A b \in 1..(a - 1) : pc[b] # "idle"
          /\ pc' = [pc EXCEPT ![a] = "key"]
          /\ stopped' = [stopped EXCEPT ![a] = FALSE]
    /\ UNCHANGED <<status, startDisabled, buttonsConnected, textInputVisible, micUI,
                   localParticipantIdentity, room, rstate, stopPending, navigated,
                   transcriptVars, published, now, uncaught, toast, pubRoom,
                   micEnabled, micCalls, subscribed, audio, playing>>
    /\ Resume("click")
    /\ UNCHANGED handlers
    /\ UNCHANGED tables

NoKey_setsError(a) ==
    /\ navigated' = TRUE
    /\ Catch(a, MsgNoKey)

\* authHeader === null: a toast, the page is sent to /login, and return
NoKey(a) ==
    /\ toast' = MsgNoKey
    /\ navigated' = TRUE
    /\ pc' = [pc EXCEPT ![a] = "done"]
    /\ UNCHANGED <<status, startDisabled>>

\* ensurePublicKey() settles; on a header the attempt runs to await createLocalTracks()
KeyResolved(a, outcome) ==
    /\ ~navigated /\ pc[a] = "key"
    /\ \/ /\ outcome = "null"
          /\ NoKey(a)
          /\ UNCHANGED transcriptVars
       \/ /\ outcome = "throw"
          /\ Catch(a, MsgKeyError)
          /\ UNCHANGED <<navigated, transcriptVars>>
       \/ /\ outcome = "nomic"
          /\ SetTranscript(clearTranscript(TState))
          /\ Catch(a, MsgNoMicSupport)
          /\ UNCHANGED navigated
       \/ /\ outcome = "header"
          /\ startDisabled' = TRUE
          /\ status' = "connecting"
          /\ SetTranscript(clearTranscript(TState))
          /\ pc' = [pc EXCEPT ![a] = "mic"]
          /\ UNCHANGED <<navigated, toast>>
    /\ UNCHANGED <<buttonsConnected, textInputVisible, micUI, localParticipantIdentity,
                   room, rstate, stopPending, stopped, published, now, uncaught,
                   pubRoom, mediaVars>>
    /\ UNCHANGED handlers
    /\ tables' = IF outcome \in {"nomic", "header"} THEN Follow(TablesEmpty) ELSE tables

\* createLocalTracks() settles; on success the attempt runs to await fetch()
MicResolved(a, ok) ==
    /\ ~navigated /\ pc[a] = "mic"
    /\ IF ok THEN /\ pc' = [pc EXCEPT ![a] = "fetch"]
                  /\ UNCHANGED <<status, startDisabled, toast>>
             ELSE Catch(a, MsgDenied)
    /\ UNCHANGED <<buttonsConnected, textInputVisible, micUI, localParticipantIdentity,
                   room, rstate, stopPending, stopped, navigated, transcriptVars,
                   published, now, uncaught, pubRoom, mediaVars>>
    /\ UNCHANGED handlers
    /\ UNCHANGED tables

ResponseOk_always(code) == TRUE

\* Response.ok: the status is in the range 200-299
ResponseOk(code) == code >= 200 /\ code <= 299

\* fetch() settles with a response or a rejection; on a response with ok the
\* attempt runs to await response.json()
FetchResolved(a, outcome) ==
    /\ ~navigated /\ pc[a] = "fetch"
    /\ IF outcome.kind = "reject"
       THEN Catch(a, MsgNetwork)
       ELSE IF ResponseOk(outcome.status)
       THEN /\ pc' = [pc EXCEPT ![a] = "json"]
            /\ UNCHANGED <<status, startDisabled, toast>>
       ELSE Catch(a, MsgTokenFailed(outcome.status))
    /\ UNCHANGED <<buttonsConnected, textInputVisible, micUI, localParticipantIdentity,
                   room, rstate, stopPending, stopped, navigated, transcriptVars,
                   published, now, uncaught, pubRoom, mediaVars>>
    /\ UNCHANGED handlers
    /\ UNCHANGED tables

\* the events startSession registers a handler for, with room.on
RoomEvents == {"ParticipantConnected", "ParticipantDisconnected", "TrackSubscribed",
               "TranscriptionReceived", "DataReceived", "Disconnected"}

RegisterHandlers_noDisconnected(a) ==
    handlers' = [handlers EXCEPT ![a] = RoomEvents \ {"Disconnected"}]

\* the room.on(...) calls between new Room() and room.connect()
RegisterHandlers(a) == handlers' = [handlers EXCEPT ![a] = RoomEvents]

\* response.json() settles; on success: new Room, handlers, await room.connect()
JsonResolved(a, ok) ==
    /\ ~navigated /\ pc[a] = "json"
    /\ IF ok THEN /\ room' = a
                  /\ RegisterHandlers(a)
                  /\ rstate' = [rstate EXCEPT ![a] = "connecting"]
                  /\ pc' = [pc EXCEPT ![a] = "connect"]
                  /\ UNCHANGED <<status, startDisabled, toast>>
             ELSE /\ Catch(a, MsgBadJson)
                  /\ UNCHANGED <<room, rstate, handlers>>
    /\ UNCHANGED <<buttonsConnected, textInputVisible, micUI, localParticipantIdentity,
                   stopPending, stopped, navigated, transcriptVars, published, now,
                   uncaught, pubRoom, mediaVars>>
    /\ UNCHANGED tables

\* room.connect() settles; on success the attempt runs to await publishTrack()
ConnectResolved(a, ok) ==
    /\ ~navigated /\ pc[a] = "connect"
    /\ IF ok THEN /\ rstate' = [rstate EXCEPT ![a] = "connected"]
                  /\ localParticipantIdentity' = IdentityOf(room, rstate')
                  /\ status' = "connected"
                  /\ buttonsConnected' = TRUE
                  /\ textInputVisible' = TRUE
                  /\ pc' = [pc EXCEPT ![a] = "publish"]
                  /\ pubRoom' = [pubRoom EXCEPT ![a] = room]
                  /\ UNCHANGED <<startDisabled, toast>>
             ELSE /\ rstate' = [rstate EXCEPT ![a] = "failed"]
                  /\ Catch(a, NoMessage)
                  /\ UNCHANGED <<localParticipantIdentity, buttonsConnected,
                                 textInputVisible, pubRoom>>
    /\ UNCHANGED <<micUI, room, stopPending, stopped, navigated, transcriptVars,
                   published, now, uncaught, mediaVars>>
    /\ UNCHANGED handlers
    /\ UNCHANGED tables

\* publishTrack() settles for the captured track; it succeeds only on a
\* connected room, whose microphone is then enabled
PublishResolved(a, ok) ==
    /\ ~navigated /\ pc[a] = "publish"
    /\ IF ok THEN /\ rstate[pubRoom[a]] = "connected"
                  /\ micEnabled' = [micEnabled EXCEPT ![pubRoom[a]] = TRUE]
                  /\ pc' = [pc EXCEPT ![a] = "done"]
                  /\ toast' = MsgSuccess
                  /\ UNCHANGED <<status, startDisabled>>
             ELSE /\ Catch(a, MsgPublishError)
                  /\ UNCHANGED micEnabled
    /\ UNCHANGED <<pubRoom, micCalls, subscribed, audio, playing, listeners, retries>>
    /\ UNCHANGED <<buttonsConnected, textInputVisible, micUI, localParticipantIdentity,
                   room, rstate, stopPending, stopped, navigated, transcriptVars,
                   published, now, uncaught>>
    /\ UNCHANGED handlers
    /\ UNCHANGED tables

\* stopBtn click: stopSession up to await room.disconnect().  Disconnecting a
\* connected room emits Disconnected, whose handler is resetUI; a room that is
\* still connecting is left to settle its connect either way.
StopClick ==
    /\ ~navigated /\ buttonsConnected
    /\ stopped' = [a \in Attempts |->
                       stopped[a] \/ (status = "connecting" /\ pc[a] \in Outstanding)]
    /\ IF room = Null
       THEN /\ resetUI
            /\ UNCHANGED <<rstate, stopPending, micEnabled>>
       ELSE /\ stopPending < MaxStops
            /\ stopPending' = stopPending + 1
            /\ IF rstate[room] = "connected"
               THEN /\ rstate' = [rstate EXCEPT ![room] = "ended"]
                    /\ micEnabled' = [micEnabled EXCEPT ![room] = FALSE]
                    /\ resetUI
               ELSE UNCHANGED <<rstate, status, buttonsConnected, startDisabled,
                                textInputVisible, micUI, localParticipantIdentity,
                                micEnabled, audio>>
    /\ Resume("click")
    /\ UNCHANGED <<room, pc, navigated, transcriptVars, published, now, uncaught,
                   toast, pubRoom, micCalls, subscribed, playing>>
    /\ UNCHANGED handlers
    /\ UNCHANGED tables

\* room.disconnect() settles: stopSession runs resetUI()
StopResume ==
    /\ ~navigated /\ stopPending > 0
    /\ stopPending' = stopPending - 1
    /\ resetUI
    /\ UNCHANGED <<room, pc, rstate, stopped, navigated, transcriptVars, published,
                   now, uncaught, toast, pubRoom, micEnabled, micCalls, subscribed,
                   playing, listeners, retries>>
    /\ UNCHANGED handlers
    /\ UNCHANGED tables

\* RoomEvent.Disconnected, not asked for: the handler is resetUI
RoomDisconnected(r) ==
    /\ ~navigated /\ rstate[r] = "connected"
    /\ "Disconnected" \in handlers[r]
    /\ rstate' = [rstate EXCEPT ![r] = "ended"]
    /\ micEnabled' = [micEnabled EXCEPT ![r] = FALSE]
    /\ resetUI
    /\ UNCHANGED <<room, pc, stopPending, stopped, navigated, transcriptVars,
                   published, now, uncaught, toast, pubRoom, micCalls, subscribed,
                   playing, listeners, retries>>
    /\ UNCHANGED handlers
    /\ UNCHANGED tables

\* a delta may only grow a text up to MaxTextLen
AccumulationBounded(text) ==
    LET id == IF text.data.item_id # NoId THEN text.data.item_id ELSE Key("grok-", now) IN
    IF text.form = "json" /\ text.data.type = TypeDelta /\ id \in DOMAIN segmentElements
    THEN Len(entries[segmentElements[id]].text) + Len(text.data.delta) <= MaxTextLen
    ELSE TRUE

\* RoomEvent.TranscriptionReceived from a connected room
TranscriptionReceived(r, segments, participant) ==
    /\ ~navigated /\ rstate[r] = "connected"
    /\ "TranscriptionReceived" \in handlers[r]
    /\ LET T == handleTranscription(TState, segments, participant,
                                    localParticipantIdentity)
       IN  /\ Cardinality(DOMAIN T.entries) <= MaxEntries
           /\ SetTranscript(T)
    /\ UNCHANGED <<sessionVars, published, now, uncaught, toast, pubRoom, mediaVars>>
    /\ UNCHANGED handlers
    /\ tables' = Follow(TablesTranscription(tables, segments, participant,
                                             localParticipantIdentity))

\* RoomEvent.DataReceived from a connected room: decode, then handleDataMessage
DataReceived(r, payload) ==
    /\ ~navigated /\ rstate[r] = "connected"
    /\ "DataReceived" \in handlers[r]
    /\ IF payload.form = "undecodable"
       THEN UNCHANGED <<transcriptVars, uncaught>>
       ELSE LET res == handleDataMessage(TState, payload, now) IN
            /\ AccumulationBounded(payload)
            /\ Cardinality(DOMAIN res.T.entries) <= MaxEntries
            /\ SetTranscript(res.T)
            /\ uncaught' = (uncaught \/ res.escaped)
    /\ UNCHANGED <<sessionVars, published, now, toast, pubRoom, mediaVars>>
    /\ UNCHANGED handlers
    /\ tables' = IF payload.form = "undecodable" THEN tables
                  ELSE Follow(TablesMessage(tables, payload, now))

\* clearTranscriptBtn click
ClearClick ==
    /\ ~navigated
    /\ SetTranscript(clearTranscript(TState))
    /\ Resume("click")
    /\ UNCHANGED <<sessionVars, published, now, uncaught, toast, pubRoom, micEnabled,
                   micCalls, subscribed, audio, playing>>
    /\ UNCHANGED handlers
    /\ tables' = Follow(TablesEmpty)

\* sendTextMessage keeping the entry only when publishData returned
sendTextMessageOn_dropsOnFailure(T, pub, tst, text, connected, publishOk, t) ==
    IF Trim(text) = "" THEN [T |-> T, published |-> pub, toast |-> tst]
    ELSE IF ~connected THEN [T |-> T, published |-> pub, toast |-> MsgNotConnected]
    ELSE IF publishOk
    THEN [T |-> appendTranscriptBubble(T, Key("text-user-", t), "user", Trim(text), FALSE),
          published |-> Append(pub, <<"grok.chat", Trim(text)>>),
          toast |-> tst]
    ELSE [T |-> T, published |-> pub, toast |-> MsgSendFailed]

\* The body of sendTextMessage as a function of what it reads: the transcript,
\* the messages published and the last toast so far, the text, whether `room`
\* is set and connected, whether publishData returns, and Date.now().
sendTextMessageOn(T, pub, tst, text, connected, publishOk, t) ==
    IF Trim(text) = "" THEN [T |-> T, published |-> pub, toast |-> tst]
    ELSE IF ~connected THEN [T |-> T, published |-> pub, toast |-> MsgNotConnected]
    ELSE [T |-> appendTranscriptBubble(T, Key("text-user-", t), "user", Trim(text), FALSE),
          published |-> IF publishOk THEN Append(pub, <<"grok.chat", Trim(text)>>)
                        ELSE pub,
          toast |-> IF publishOk THEN tst ELSE MsgSendFailed]

\* sendTextMessage publishing on the topic "chat"
sendTextMessage_chatTopic(text, publishOk) ==
    IF Trim(text) = "" THEN UNCHANGED <<transcriptVars, published, toast>>
    ELSE IF room = Null \/ rstate[room] # "connected"
    THEN toast' = MsgNotConnected /\ UNCHANGED <<transcriptVars, published>>
    ELSE LET T == appendTranscriptBubble(TState, Key("text-user-", now), "user",
                                         Trim(text), FALSE)
         IN  /\ Cardinality(DOMAIN T.entries) <= MaxEntries
             /\ SetTranscript(T)
             /\ published' = IF publishOk
                             THEN Append(published, <<"chat", Trim(text)>>)
                             ELSE published
             /\ toast' = IF publishOk THEN toast ELSE MsgSendFailed

\* sendTextMessage(text); publishData either returns or throws (caught)
sendTextMessage(text, publishOk) ==
    LET res == sendTextMessageOn(TState, published, toast, text,
                                 IF room = Null THEN FALSE ELSE rstate[room] = "connected",
                                 publishOk, now)
    IN  /\ Cardinality(DOMAIN res.T.entries) <= MaxEntries
        /\ SetTranscript(res.T)
        /\ published' = res.published
        /\ toast' = res.toast

\* Enter in textInput, or sendTextBtn click, with a non-blank value
SendText(text, publishOk) ==
    /\ ~navigated /\ textInputVisible
    /\ Trim(text) # ""
    /\ sendTextMessage(text, publishOk)
    /\ \E event \in {"keydown", "click"} :
          IF event = "click" THEN Resume("click") ELSE UNCHANGED <<listeners, retries>>
    /\ UNCHANGED <<sessionVars, now, uncaught, pubRoom, micEnabled, micCalls,
                   subscribed, audio, playing>>
    /\ UNCHANGED handlers
    /\ tables' = IF room = Null \/ rstate[room] # "connected" THEN tables
                  ELSE Follow(TablesTyped(tables, Trim(text)))

\* ------------------------------------------------ microphone, audio output
\* toggleMic(): setMicrophoneEnabled(!enabled) is called and not awaited, and
\* the button shows !enabled at once
toggleMic ==
    IF room = Null \/ rstate[room] # "connected"
    THEN UNCHANGED <<micCalls, micUI>>
    ELSE /\ Len(micCalls) < MaxMicCalls
         /\ micCalls' = Append(micCalls, <<room, ~micEnabled[room]>>)
         /\ micUI' = ~micEnabled[room]

\* micToggleBtn click
ToggleMic ==
    /\ ~navigated
    /\ toggleMic
    /\ Resume("click")
    /\ UNCHANGED <<status, startDisabled, buttonsConnected, textInputVisible,
                   localParticipantIdentity, room, pc, rstate, stopPending, stopped,
                   navigated, transcriptVars, published, now, uncaught, toast, pubRoom,
                   micEnabled, subscribed, audio, playing>>
    /\ UNCHANGED handlers
    /\ UNCHANGED tables

\* the oldest setMicrophoneEnabled call settles: it takes effect on a room
\* that is still connected, or it fails
MicSettled(ok) ==
    /\ ~navigated /\ micCalls # <<>>
    /\ LET r == Head(micCalls)[1]
           enabled == Head(micCalls)[2]
       IN  micEnabled' = IF ok /\ rstate[r] = "connected"
                         THEN [micEnabled EXCEPT ![r] = enabled]
                         ELSE micEnabled
    /\ micCalls' = Tail(micCalls)
    /\ UNCHANGED <<sessionVars, transcriptVars, published, now, uncaught, toast, pubRoom,
                   subscribed, audio, playing, listeners, retries>>
    /\ UNCHANGED handlers
    /\ UNCHANGED tables

\* RoomEvent.TrackSubscribed from a connected room: an audio track gets an
\* element in audioRoot and play() is called on it
TrackSubscribed(r, track, kind) ==
    /\ ~navigated /\ rstate[r] = "connected"
    /\ "TrackSubscribed" \in handlers[r]
    /\ track \notin subscribed
    /\ subscribed' = subscribed \cup {track}
    /\ IF kind = "audio"
       THEN /\ audio' = audio \cup {track}
            /\ playing' = playing \cup {track}
       ELSE UNCHANGED <<audio, playing>>
    /\ UNCHANGED <<sessionVars, transcriptVars, published, now, uncaught, toast, pubRoom,
                   micEnabled, micCalls, listeners, retries>>
    /\ UNCHANGED handlers
    /\ UNCHANGED tables

\* the first play() of an element settles; on a rejection its resume is
\* registered for the next touchstart and the next click
PlaySettled(e, ok) ==
    /\ ~navigated /\ e \in playing
    /\ playing' = playing \ {e}
    /\ listeners' = IF ok THEN listeners
                    ELSE listeners \cup {<<e, "touchstart">>, <<e, "click">>}
    /\ UNCHANGED <<sessionVars, transcriptVars, published, now, uncaught, toast, pubRoom,
                   micEnabled, micCalls, subscribed, audio, retries>>
    /\ UNCHANGED handlers
    /\ UNCHANGED tables

\* a touchstart, or a click outside the controls, while a resume is registered
Gesture(type) ==
    /\ ~navigated
    /\ \E l \in listeners : l[2] = type
    /\ Resume(type)
    /\ UNCHANGED <<sessionVars, transcriptVars, published, now, uncaught, toast, pubRoom,
                   micEnabled, micCalls, subscribed, audio, playing>>
    /\ UNCHANGED handlers
    /\ UNCHANGED tables

\* time passes
Tick ==
    /\ ~navigated /\ now < MaxClock
    /\ now' = now + 1
    /\ UNCHANGED <<sessionVars, transcriptVars, published, uncaught, toast, pubRoom,
                   mediaVars>>
    /\ UNCHANGED handlers
    /\ UNCHANGED tables

\* ------------------------------------------------------------------ inputs
Seg(id, text, final) == [id |-> ExtId(id), text |-> text, final |-> final]

\* parsed JSON values: null / a scalar (no type field) / an object
Obj(type, item_id, transcript, delta) ==
    [kind |-> "object", type |-> type, item_id |-> item_id,
     transcript |-> transcript, delta |-> delta]
NonObj(kind) ==
    [kind |-> kind, type |-> NoType, item_id |-> NoId, transcript |-> "", delta |-> ""]
Json(data) == [form |-> "json", data |-> data]
Raw(form) == [form |-> form, data |-> NonObj("null")]

\* the two messages of the end-to-end scenario
HelloSegment == Seg("s1", "hello", TRUE)
HelloThere == Json(Obj(TypeCompleted, ExtId("p1"), "Hello there", ""))
HelloThereShort == Json(Obj(TypeCompletedShort, ExtId("p1"), "Hello there", ""))

\* inputs of the whole-program specification
\* fetch(): a response with some status, or a rejection
Statuses == {200, 201, 403}
FetchOutcomes ==
    {[kind |-> "response", status |-> c] : c \in Statuses}
        \cup {[kind |-> "reject", status |-> 0]}
SessionBatches == {<<HelloSegment>>, <<Seg("s1", "hel", FALSE)>>}
SessionPayloads == {HelloThere, HelloThereShort}

\* inputs of the in-call specification
SegIds == {"s1", "s2"}
\* "hel" and the empty text only come in interim segments
Segments ==
    {Seg(id, text, FALSE) : id \in SegIds, text \in {"", "hel", "hello"}}
        \cup {Seg(id, "hello", TRUE) : id \in SegIds}
Batches ==
    {<<>>} \cup {<<s>> : s \in Segments}
        \cup {<<Seg("s1", "hello", FALSE), Seg("s1", "hello", TRUE)>>,
              <<Seg("s1", "hello", TRUE), Seg("s1", "", FALSE)>>,
              <<Seg("s1", "hello", TRUE), Seg("s2", "hel", FALSE)>>,
              <<Seg("s2", "hello", FALSE), Seg("s1", "hello", FALSE)>>}
Participants == {LocalIdentity, RemoteIdentity, NoIdentity}
\* "s2" is an item id as well as a segment id
ItemIds == {ExtId("p1"), ExtId("s2"), NoId}
Malformed ==
    {Raw("empty"), Raw("undecodable"), Raw("notjson"),
     Json(NonObj("null")), Json(NonObj("scalar")),
     Json(Obj(NoType, ExtId("p1"), "Hello there", "lo")),
     HelloThereShort,
     Json(Obj("response.created", ExtId("p1"), "Hello!", "lo"))}
Payloads ==
    Malformed
        \cup {Json(Obj(TypeCompleted, i, t, "")) : i \in ItemIds, t \in {"", "Hello there"}}
        \cup {Json(Obj(TypeDelta, i, "", d)) : i \in ItemIds, d \in {"", "Hel", "lo"}}
        \cup {Json(Obj(TypeDone, i, t, "")) : i \in ItemIds, t \in {"", "Hello!"}}
TypedTexts == {" hi "}

\* ---------------------------------------------------------- specifications
\* The session and its transcript, from page load.
Next ==
    \/ StartClick
    \/ \E a \in Attempts, o \in {"null", "throw", "nomic", "header"} : KeyResolved(a, o)
    \/ \E a \in Attempts, ok \in BOOLEAN : MicResolved(a, ok)
    \/ \E a \in Attempts, o \in FetchOutcomes : FetchResolved(a, o)
    \/ \E a \in Attempts, ok \in BOOLEAN : JsonResolved(a, ok)
    \/ \E a \in Attempts, ok \in BOOLEAN : ConnectResolved(a, ok)
    \/ \E a \in Attempts, ok \in BOOLEAN : PublishResolved(a, ok)
    \/ StopClick
    \/ StopResume
    \/ \E r \in Attempts : RoomDisconnected(r)
    \/ \E r \in Attempts, b \in SessionBatches : TranscriptionReceived(r, b, LocalIdentity)
    \/ \E r \in Attempts, m \in SessionPayloads : DataReceived(r, m)
    \/ ClearClick

Spec == Init /\ [][Next]_vars

\* The session and its microphone, from page load.
NextMic ==
    \/ StartClick
    \/ \E a \in Attempts, o \in {"null", "throw", "nomic", "header"} : KeyResolved(a, o)
    \/ \E a \in Attempts, ok \in BOOLEAN : MicResolved(a, ok)
    \/ \E a \in Attempts, o \in FetchOutcomes : FetchResolved(a, o)
    \/ \E a \in Attempts, ok \in BOOLEAN : JsonResolved(a, ok)
    \/ \E a \in Attempts, ok \in BOOLEAN : ConnectResolved(a, ok)
    \/ \E a \in Attempts, ok \in BOOLEAN : PublishResolved(a, ok)
    \/ StopClick
    \/ StopResume
    \/ \E r \in Attempts : RoomDisconnected(r)
    \/ ToggleMic
    \/ \E ok \in BOOLEAN : MicSettled(ok)

SpecMic == Init /\ [][NextMic]_vars

\* The session and its audio output, from page load.
NextAudio ==
    \/ StartClick
    \/ \E a \in Attempts, o \in {"null", "throw", "nomic", "header"} : KeyResolved(a, o)
    \/ \E a \in Attempts, ok \in BOOLEAN : MicResolved(a, ok)
    \/ \E a \in Attempts, o \in FetchOutcomes : FetchResolved(a, o)
    \/ \E a \in Attempts, ok \in BOOLEAN : JsonResolved(a, ok)
    \/ \E a \in Attempts, ok \in BOOLEAN : ConnectResolved(a, ok)
    \/ \E a \in Attempts, ok \in BOOLEAN : PublishResolved(a, ok)
    \/ StopClick
    \/ StopResume
    \/ \E r \in Attempts : RoomDisconnected(r)
    \/ \E r \in Attempts, t \in Tracks, k \in {"audio", "video"} : TrackSubscribed(r, t, k)
    \/ \E e \in Tracks, ok \in BOOLEAN : PlaySettled(e, ok)
    \/ \E type \in {"touchstart", "click"} : Gesture(type)

SpecAudio == Init /\ [][NextAudio]_vars

\* One call: the state after a first start attempt has connected and
\* published (reached by Spec, see CallReached), and the events of the call.
InitCall ==
    /\ status = "connected"
    /\ startDisabled = TRUE
    /\ buttonsConnected = TRUE
    /\ textInputVisible = TRUE
    /\ micUI = TRUE
    /\ localParticipantIdentity = LocalIdentity
    /\ room = 1
    /\ pc = [a \in Attempts |-> IF a = 1 THEN "done" ELSE "idle"]
    /\ rstate = [a \in Attempts |-> IF a = 1 THEN "connected" ELSE "none"]
    /\ stopPending = 0
    /\ stopped = [a \in Attempts |-> FALSE]
    /\ navigated = FALSE
    /\ placeholder = TRUE
    /\ dom = <<>>
    /\ entries = EmptyMap
    /\ segmentElements = EmptyMap
    /\ lastUserSpeechEntry = Null
    /\ published = <<>>
    /\ now = 0
    /\ uncaught = FALSE
    /\ toast = MsgSuccess
    /\ pubRoom = [a \in Attempts |-> IF a = 1 THEN 1 ELSE Null]
    /\ micEnabled = [a \in Attempts |-> a = 1]
    /\ micCalls = <<>>
    /\ subscribed = {}
    /\ audio = {}
    /\ playing = {}
    /\ listeners = {}
    /\ retries = [e \in Tracks |-> 0]
    /\ handlers = [a \in Attempts |-> IF a = 1 THEN RoomEvents ELSE {}]
    /\ tables = TablesEmpty

NextCall ==
    \/ \E b \in Batches, p \in Participants : TranscriptionReceived(1, b, p)
    \/ \E m \in Payloads : DataReceived(1, m)
    \/ \E t \in TypedTexts, ok \in BOOLEAN : SendText(t, ok)
    \/ ClearClick
    \/ Tick

SpecCall == InitCall /\ [][NextCall]_vars

\* InitCall is a state of the whole program.
CallReached == ~InitCall

\* ------------------------------------------------------------------ claims

\* C1: once stopSession has run while the status was connecting and a
\* startSession attempt was outstanding (its key, capture, token or connect
\* not yet settled), that attempt never goes on to show the session as
\* connected, whether or not its connect succeeds.
StopDuringConnectingNeverConnected ==
    [][\A a \in Attempts :
          (stopped[a] /\ pc[a] = "connect")
              => ~(pc'[a] = "publish" /\ status' = "connected")]_vars

\* ---- helpers of the claims
Elems(seq) == {seq[i] : i \in 1..Len(seq)}
IsPrefix(s, t) == Len(s) <= Len(t) /\ SubSeq(t, 1, Len(s)) = s
Visible == Elems(dom)
Detached == DOMAIN entries \ Visible
SegKeys == {ExtId(i) : i \in SegIds}
Recognized == {m \in Payloads : m.form = "json" /\ m.data.kind = "object"
                                 /\ m.data.type \in {TypeCompleted, TypeDelta, TypeDone}}
CompletedMsgs == {m \in Recognized : m.data.type = TypeCompleted}
DeltaMsgs == {m \in Recognized : m.data.type = TypeDelta}
DoneMsgs == {m \in Recognized : m.data.type = TypeDone}
\* the key a message is looked up under
MsgKey(m) ==
    IF m.data.item_id # NoId THEN m.data.item_id
    ELSE IF m.data.type = TypeCompleted THEN Key("user-", now) ELSE Key("grok-", now)
\* the transcript after the handler has run on the current state
AfterSegments(b, p) == handleTranscription(TState, b, p, localParticipantIdentity)
AfterMessage(m) == handleDataMessage(TState, m, now).T
\* T differs from the current transcript in entry h at most, and has no new entry
OnlyChanges(T, h) ==
    /\ T.dom = dom
    /\ DOMAIN T.entries = DOMAIN entries
    /\ \A g \in DOMAIN entries \ {h} : T.entries[g] = entries[g]
\* T is the current transcript plus one new entry, appended and filed under id
Creates(T, id) ==
    LET h == Fresh(TState) IN
    /\ h \notin DOMAIN entries
    /\ T.dom = Append(dom, h)
    /\ DOMAIN T.entries = DOMAIN entries \cup {h}
    /\ \A g \in DOMAIN entries : T.entries[g] = entries[g]
    /\ T.segmentElements[id] = h

\* The case of C2: the user entry created under segment id k by a local
\* segment is the pending one, and message m carries an item_id that is no key.
RekeyCase(m, k) ==
    /\ k \in DOMAIN segmentElements
    /\ lastUserSpeechEntry = segmentElements[k]
    /\ entries[segmentElements[k]].role = "user"
    /\ m.data.item_id # NoId
    /\ m.data.item_id \notin DOMAIN segmentElements

RekeyResult(m, k) ==
    LET E == segmentElements[k]
        T == AfterMessage(m)
    IN  /\ OnlyChanges(T, E)
        /\ T.segmentElements[k] = E
        /\ m.data.item_id \in DOMAIN T.segmentElements
        /\ T.segmentElements[m.data.item_id] = E
        /\ T.entries[E].text = m.data.transcript
        /\ T.entries[E].bubble = m.data.transcript
        /\ ~T.entries[E].interim

\* an event whose id is a key updates the entry filed under it and creates nothing
KnownKeyUpdatesInPlace ==
    /\ \A s \in Segments, p \in Participants :
          s.id \in DOMAIN segmentElements
              => /\ OnlyChanges(AfterSegments(<<s>>, p), segmentElements[s.id])
                 /\ AfterSegments(<<s>>, p).entries[segmentElements[s.id]].text = s.text
    /\ \A m \in Recognized :
          MsgKey(m) \in DOMAIN segmentElements
              => OnlyChanges(AfterMessage(m), segmentElements[MsgKey(m)])

\* C2 as stated: for every completed message, whatever transcript it carries,
\* that arrives while the entry E created under T1 is pending and whose item_id
\* P1 is no key: no entry is created, E is filed under both T1 and P1, E's text
\* is the message's transcript and E is final.
RekeyingAnyTranscript ==
    \A m \in CompletedMsgs, k \in SegKeys : RekeyCase(m, k) => RekeyResult(m, k)

\* C2, amended: the same for every completed message with a non-empty
\* transcript; and a later segment with id T1 or message with item_id P1, their
\* ids being keys, update the entry filed under them and create nothing.
Rekeying ==
    /\ \A m \in CompletedMsgs, k \in SegKeys :
          (RekeyCase(m, k) /\ m.data.transcript # "") => RekeyResult(m, k)
    /\ KnownKeyUpdatesInPlace

\* C2 witness: one visible entry, final, reading the message's transcript and
\* filed under both the segment id s1 and the item id p1.
RekeyedWitness ==
    /\ Len(dom) = 1
    /\ ExtId("s1") \in DOMAIN segmentElements
    /\ ExtId("p1") \in DOMAIN segmentElements
    /\ segmentElements[ExtId("s1")] = dom[1]
    /\ segmentElements[ExtId("p1")] = dom[1]
    /\ entries[dom[1]].role = "user"
    /\ entries[dom[1]].text = "Hello there"
    /\ ~entries[dom[1]].interim
    /\ lastUserSpeechEntry = Null

\* C3: an entry that is final never becomes interim again, whatever the
\* event; and after a batch of segments, the entry of every segment of the
\* batch that carried final = true is final, also when later segments of the
\* batch with the same id carry final = false.
InterimMonotone ==
    /\ [](\A b \in Batches, p \in Participants :
             \A i \in 1..Len(b) :
                b[i].final
                    => LET T == AfterSegments(b, p)
                       IN  ~T.entries[T.segmentElements[b[i].id]].interim)
    /\ [][\A h \in DOMAIN entries : ~entries[h].interim => ~entries'[h].interim]_vars

\* C3 witness: the entry created under s1 is final and reads "hel", a text
\* only interim segments carry: an interim segment arrived after it was final.
FinalKeptWitness ==
    \E h \in DOMAIN entries :
        /\ entries[h].segmentId = ExtId("s1")
        /\ entries[h].text = "hel"
        /\ ~entries[h].interim

\* C4: a delta with a fragment for a key that is filed appends the fragment to
\* the entry's text and leaves its interim flag alone; for a key that is not
\* filed it creates an interim assistant entry reading the fragment.  A done
\* for a filed key replaces the text by its transcript when that is non-empty,
\* leaves the text alone when it is empty, and marks the entry final either way.
DeltaAccumulation ==
    /\ \A m \in DeltaMsgs :
          m.data.delta # ""
              => LET T == AfterMessage(m)
                     k == MsgKey(m)
                 IN  IF k \in DOMAIN segmentElements
                     THEN LET h == segmentElements[k] IN
                          /\ OnlyChanges(T, h)
                          /\ T.entries[h].text = entries[h].text \o m.data.delta
                          /\ T.entries[h].bubble = T.entries[h].text
                          /\ T.entries[h].interim = entries[h].interim
                     ELSE /\ Creates(T, k)
                          /\ T.entries[T.segmentElements[k]].role = "assistant"
                          /\ T.entries[T.segmentElements[k]].text = m.data.delta
                          /\ T.entries[T.segmentElements[k]].interim
    /\ \A m \in DoneMsgs :
          MsgKey(m) \in DOMAIN segmentElements
              => LET T == AfterMessage(m)
                     h == segmentElements[MsgKey(m)]
                 IN  /\ OnlyChanges(T, h)
                     /\ T.entries[h].text = IF m.data.transcript # ""
                                            THEN m.data.transcript
                                            ELSE entries[h].text
                     /\ T.entries[h].bubble = T.entries[h].text
                     /\ ~T.entries[h].interim

\* C4 witness: the assistant entry created under p1 reads "Hello", the
\* fragments "Hel" and "lo" in order, and is final: a done with an empty
\* transcript marked it final and left the text.
HelloWitness ==
    \E h \in DOMAIN entries :
        /\ entries[h].segmentId = ExtId("p1")
        /\ entries[h].role = "assistant"
        /\ entries[h].text = "Hello"
        /\ entries[h].bubble = "Hello"
        /\ ~entries[h].interim

\* C5: a payload that cannot be decoded, is empty, is not JSON, is no object
\* with a type, or has a type that is not recognized leaves the transcript,
\* the Map and the pending entry as they are; no exception escapes the
\* handler and the session's state does not change.
MalformedIgnored ==
    /\ [](/\ ~uncaught
          /\ \A m \in Malformed \ {Raw("undecodable")} :
                LET res == handleDataMessage(TState, m, now)
                IN  res.T = TState /\ ~res.escaped)
    /\ [][\A m \in Malformed :
             DataReceived(1, m) => UNCHANGED <<transcriptVars, sessionVars, uncaught>>]_vars

\* C5 witness: a call with a visible entry, a pending user entry and filed
\* keys, which a malformed payload could have altered.
MalformedWitness ==
    /\ rstate[1] = "connected"
    /\ dom # <<>>
    /\ lastUserSpeechEntry # Null
    /\ segmentElements # EmptyMap
    /\ ~uncaught

\* C6: entries that left the container (by a clear) are never changed and
\* never shown again; neither the Map nor the pending reference refers to one;
\* and a segment, or a delta with a fragment, whose id was the id of an entry
\* before the clear and is no key now, creates a new entry object.
NoResidualIdentity ==
    /\ [](/\ \A k \in DOMAIN segmentElements : segmentElements[k] \in Visible
          /\ lastUserSpeechEntry \in Visible \cup {Null}
          /\ \A s \in Segments, p \in Participants :
                (s.id \notin DOMAIN segmentElements
                    /\ \E h \in Detached : entries[h].segmentId = s.id)
                    => Creates(AfterSegments(<<s>>, p), s.id)
          /\ \A m \in DeltaMsgs :
                (m.data.delta # ""
                    /\ MsgKey(m) \notin DOMAIN segmentElements
                    /\ \E h \in Detached : entries[h].segmentId = MsgKey(m))
                    => Creates(AfterMessage(m), MsgKey(m))
          /\ \A m \in CompletedMsgs :
                \A h \in Detached : AfterMessage(m).entries[h] = entries[h])
    /\ [][\A h \in Detached : entries'[h] = entries[h] /\ h \notin Elems(dom')]_vars

\* C6 witness: an entry created under an id before a clear is out of the
\* container, and a new, visible entry is filed under the same id.
SeenIdAgainWitness ==
    \E h \in Detached, g \in Visible :
        /\ entries[h].segmentId = entries[g].segmentId
        /\ entries[g].segmentId \in DOMAIN segmentElements
        /\ segmentElements[entries[g].segmentId] = g

\* C8: one user turn gives transport segments with id s1 and one completed
\* message with item_id p1.  When the transcript holds just the entry of that
\* turn, created by whichever of the two came first, the other one leaves the
\* transcript with exactly one entry.
OneEntryPerTurn ==
    \A h \in DOMAIN entries :
        /\ (/\ dom = <<h>>
            /\ DOMAIN segmentElements = {ExtId("s1")}
            /\ lastUserSpeechEntry = h)
               => Len(AfterMessage(HelloThere).dom) = 1
        /\ (/\ dom = <<h>>
            /\ DOMAIN segmentElements = {ExtId("p1")}
            /\ entries[h].role = "user"
            /\ entries[h].segmentId = ExtId("p1"))
               => Len(AfterSegments(<<HelloSegment>>, LocalIdentity).dom) = 1

\* C9: except in a clear, the container's entries stay where they are and new
\* ones come after them; an entry is in the container once.
AppendOnly ==
    /\ [](\A i, j \in 1..Len(dom) : dom[i] = dom[j] => i = j)
    /\ [][ClearClick \/ IsPrefix(dom, dom')]_vars

\* C9 witness: two entries in creation order, the first one updated in place
\* (re-keyed by a completed message), the second one a typed message.
UpdatedInPlaceWitness ==
    /\ dom = <<1, 2>>
    /\ entries[1].text = "Hello there"
    /\ entries[1].segmentId \in SegKeys
    /\ entries[2].segmentId[1] = "text-user-"

\* C10: clearTranscript leaves no entry in the container, no key in the Map
\* and no pending entry; clearing again changes nothing; and no state shows an
\* empty container with a key or a pending entry left.
ClearAtomicIdempotent ==
    /\ LET C == clearTranscript(TState)
       IN  /\ C.dom = <<>>
           /\ C.segmentElements = EmptyMap
           /\ C.lastUserSpeechEntry = Null
           /\ C.placeholder
           /\ clearTranscript(C) = C
    /\ dom = <<>> => (segmentElements = EmptyMap /\ lastUserSpeechEntry = Null)

\* C10 witness: entries were created and the transcript was cleared.
ClearedWitness ==
    /\ dom = <<>>
    /\ entries # EmptyMap
    /\ segmentElements = EmptyMap
    /\ lastUserSpeechEntry = Null
    /\ placeholder

\* ---- the end-to-end scenario (C7)
\* one start attempt has connected, and the transcript is empty
ScenarioConnected ==
    /\ status = "connected"
    /\ rstate[1] = "connected"
    /\ \A a \in Attempts \ {1} : pc[a] = "idle"
    /\ dom = <<>>
    /\ segmentElements = EmptyMap
    /\ lastUserSpeechEntry = Null

\* T holds exactly one entry: the user's, final, reading "hello", filed under s1
HelloEntry(T) ==
    /\ Len(T.dom) = 1
    /\ T.entries[T.dom[1]].role = "user"
    /\ T.entries[T.dom[1]].text = "hello"
    /\ T.entries[T.dom[1]].bubble = "hello"
    /\ ~T.entries[T.dom[1]].interim
    /\ T.segmentElements = (ExtId("s1") :> T.dom[1])

\* the state the final segment leaves
ScenarioHello ==
    /\ status = "connected"
    /\ rstate[1] = "connected"
    /\ \A a \in Attempts \ {1} : pc[a] = "idle"
    /\ HelloEntry(TState)
    /\ lastUserSpeechEntry = dom[1]

\* T holds the same single entry, now reading "Hello there", under s1 and p1
HelloThereEntry(T) ==
    /\ T.dom = dom
    /\ Len(T.dom) = 1
    /\ T.entries[T.dom[1]].role = "user"
    /\ T.entries[T.dom[1]].text = "Hello there"
    /\ T.entries[T.dom[1]].bubble = "Hello there"
    /\ ~T.entries[T.dom[1]].interim
    /\ T.segmentElements = (ExtId("s1") :> T.dom[1]) @@ (ExtId("p1") :> T.dom[1])

\* C7 as stated: in a connected session the final segment s1 "hello" of the
\* local participant gives one final user entry "hello", and the message of
\* type "input_audio_transcription.completed" with item_id p1 then leaves that
\* one entry, reading "Hello there" and filed under s1 and p1.
EndToEndShortType ==
    /\ ScenarioConnected => HelloEntry(AfterSegments(<<HelloSegment>>, LocalIdentity))
    /\ ScenarioHello => HelloThereEntry(AfterMessage(HelloThereShort))

\* C7, amended: the same with the message type
\* "conversation.item.input_audio_transcription.completed".
EndToEnd ==
    /\ ScenarioConnected => HelloEntry(AfterSegments(<<HelloSegment>>, LocalIdentity))
    /\ ScenarioHello => HelloThereEntry(AfterMessage(HelloThere))

\* C7 witness: the scenario's last state.
EndToEndWitness ==
    /\ status = "connected"
    /\ rstate[1] = "connected"
    /\ \A a \in Attempts \ {1} : pc[a] = "idle"
    /\ HelloThereEntry(TState)
    /\ lastUserSpeechEntry = Null

\* C11: when a start attempt reaches connected the conversation is empty: no
\* entry, no id mapping and no pending user entry is present.  (The attempt's
\* own room delivers nothing before it is connected, so whatever is present
\* at that moment was created by another session's handlers.)
TranscriptEmptyAtConnected ==
    [][\A a \in Attempts :
          (pc[a] = "connect" /\ pc'[a] = "publish")
              => /\ dom' = <<>>
                 /\ segmentElements' = EmptyMap
                 /\ lastUserSpeechEntry' = Null]_vars

\* ---- C12
\* attempt a's pending step fails: its continuation is the catch block
FailureStep(a) == pc[a] \in Outstanding /\ pc'[a] = "done" /\ ~navigated'
\* the messages the failure of each pending step can carry
FailureMessages(at) ==
    CASE at = "key" -> {MsgKeyError, MsgNoMicSupport}
      [] at = "mic" -> {MsgDenied}
      [] at = "fetch" -> {MsgNetwork} \cup {MsgTokenFailed(c) : c \in Statuses}
      [] at = "json" -> {MsgBadJson}
      [] at = "connect" -> {MsgFallback}

\* C12: when a start attempt fails (credential check throws, capture API
\* missing, microphone denied, token fetch or its body fails, connect fails)
\* the status becomes error, the failure's message is shown, the start button
\* is enabled and stays visible if it was; a status of connecting always has
\* an attempt still in progress behind it; and in the error state with the
\* start button visible a new start action is possible.
StartFailureRecovers ==
    /\ [][\A a \in Attempts :
             FailureStep(a)
                 => /\ status' = "error"
                    /\ toast' \in FailureMessages(pc[a])
                    /\ ~startDisabled'
                    /\ (~buttonsConnected => ~buttonsConnected')]_vars
    /\ [](status = "connecting"
             => \E a \in Attempts : pc[a] \in {"mic", "fetch", "json", "connect"})
    /\ []((/\ status = "error" /\ ~buttonsConnected /\ ~navigated
           /\ \E a \in Attempts : pc[a] = "idle")
             => ENABLED StartClick)

\* C12 witness: the first attempt's connect failed, and a second start has
\* re-entered connecting.
RetriedAfterFailureWitness ==
    /\ rstate[1] = "failed"
    /\ toast = MsgFallback
    /\ pc[2] = "mic"
    /\ status = "connecting"
    /\ startDisabled

\* ---- C13
\* attempt a's credential check returns no credential
NoCredentialStep(a) == pc[a] = "key" /\ pc'[a] = "done" /\ navigated'
\* attempt a never asks for the microphone, a token or a connection (it has
\* created no room, and it takes no further step)
NothingRequested(a) ==
    /\ pc'[a] = "done" /\ rstate'[a] = "none" /\ room' = room

\* C13 as stated: when the credential check yields no credential the attempt
\* ends with the status error, and it asks for no microphone, token or
\* connection.
NoCredentialAbortsInError ==
    [][\A a \in Attempts :
          NoCredentialStep(a) => (status' = "error" /\ NothingRequested(a))]_vars

\* C13, amended: when the credential check yields no credential the attempt
\* shows the "configure the Public Key" message and sends the page to /login;
\* the status and the start button are left as they were (no error state),
\* and the attempt asks for no microphone, token or connection, then or
\* later.  When the credential check throws, the attempt ends in the error
\* state, also without asking for any of them.
NoCredentialRedirects ==
    /\ [][\A a \in Attempts :
             NoCredentialStep(a)
                 => /\ toast' = MsgNoKey
                    /\ status' = status /\ startDisabled' = startDisabled
                    /\ NothingRequested(a)]_vars
    /\ [][\A a \in Attempts :
             (pc[a] = "key" /\ pc'[a] = "done" /\ ~navigated'
                            /\ toast' = MsgKeyError)
                 => (status' = "error" /\ NothingRequested(a))]_vars
    /\ [][\A a \in Attempts :
             pc[a] = "done"
                 => /\ pc'[a] = "done"
                    /\ rstate[a] = "none" => rstate'[a] = "none"]_vars
    /\ [][navigated => UNCHANGED vars]_vars

\* C13 witness: the first attempt found no credential: the message is shown,
\* the page is on its way to /login and the status is still the initial one.
NoCredentialWitness ==
    /\ navigated
    /\ toast = MsgNoKey
    /\ pc[1] = "done" /\ rstate[1] = "none"
    /\ status = ""

\* ---- C14
Responses == {o \in FetchOutcomes : o.kind = "response"}
\* attempt a ends in the error state and has no room
TokenFetchFailed(a) ==
    /\ status' = "error"
    /\ pc'[a] = "done"
    /\ rstate'[a] = "none" /\ room' = room

\* C14 as stated: a token response with a status other than 200 ends the
\* attempt in the error state with no room created for it.
TokenOnly200 ==
    [][\A a \in Attempts, o \in Responses :
          (o.status # 200 /\ FetchResolved(a, o)) => TokenFetchFailed(a)]_vars

\* C14, amended: a token response whose status is outside 200..299 ends the
\* attempt in the error state, showing the status in the message, with no
\* room created for it; a response with a status in 200..299 lets the
\* attempt go on to read the body; a room is only ever created by an attempt
\* whose token body has just been read.
TokenNeedsOk ==
    /\ [][\A a \in Attempts, o \in Responses :
             FetchResolved(a, o)
                 => IF o.status >= 200 /\ o.status <= 299
                    THEN pc'[a] = "json" /\ status' = status /\ rstate' = rstate
                    ELSE TokenFetchFailed(a) /\ toast' = MsgTokenFailed(o.status)]_vars
    /\ [][\A a \in Attempts :
             rstate'[a] # rstate[a] /\ rstate[a] = "none"
                 => pc[a] = "json" /\ pc'[a] = "connect"]_vars

\* C14 witness: the first attempt's token request was answered 403.
TokenRefusedWitness ==
    /\ toast = MsgTokenFailed(403)
    /\ status = "error"
    /\ pc[1] = "done" /\ rstate[1] = "none"

\* ---- C15
\* a connected room ends (by room.disconnect() or on its own), or a
\* stopSession call completes
SessionEndStep ==
    \/ \E r \in Attempts : rstate[r] = "connected" /\ rstate'[r] = "ended"
    \/ stopPending' < stopPending

\* C15: whenever a connected room ends, through stopSession or through an
\* unsolicited Disconnected event, and whenever stopSession completes, the
\* resulting state is the disconnected one: status empty and start button
\* back, local participant identity cleared, text input hidden, microphone
\* button shown as enabled, and no audio element left in audioRoot.
EndedSessionIsReset ==
    [][SessionEndStep
          => /\ status' = "" /\ ~buttonsConnected' /\ ~startDisabled'
             /\ localParticipantIdentity' = NoIdentity
             /\ ~textInputVisible'
             /\ micUI'
             /\ audio' = {}]_vars

\* C15 witness: the first room was connected with the audio element of t1
\* attached (its play() still pending); the room has ended and the state is
\* the disconnected one with audioRoot empty.
EndedSessionWitness ==
    /\ rstate[1] = "ended"
    /\ "t1" \in playing
    /\ audio = {}
    /\ status = "" /\ ~buttonsConnected /\ ~textInputVisible
    /\ localParticipantIdentity = NoIdentity

\* ---- C16
\* how far a startSession invocation has come
Stage(at) ==
    CASE at = "idle" -> 0 [] at = "key" -> 1 [] at = "mic" -> 2 [] at = "fetch" -> 3
      [] at = "json" -> 4 [] at = "connect" -> 5 [] at = "publish" -> 6
      [] at = "done" -> 7
Started == {a \in Attempts : pc[a] # "idle"}
ConnectCalled == {a \in Attempts : rstate[a] # "none"}

\* C16: nothing restarts a session by itself.  A startSession invocation
\* begins only with a click on the start button; it only moves forward, so it
\* captures, fetches and connects at most once and never again after its
\* catch block or after its room has disconnected; while no invocation is in
\* progress the only step that begins a capture, a token request or a
\* connect is that click; and the rooms connect() was called on never
\* outnumber the clicks on start.
NoAutomaticRetry ==
    /\ [][\A a \in Attempts : Stage(pc'[a]) >= Stage(pc[a])]_vars
    /\ [][(\E a \in Attempts : pc[a] = "idle" /\ pc'[a] # "idle") => StartClick]_vars
    /\ [][((\A a \in Attempts : pc[a] \in {"idle", "done"})
               /\ (pc' # pc \/ rstate' # rstate))
             => \/ StartClick
                \/ pc' = pc /\ \A a \in Attempts :
                                  rstate'[a] # rstate[a] => rstate'[a] = "ended"]_vars
    /\ [](Cardinality(ConnectCalled) <= Cardinality(Started))

\* C16 witness: the first attempt's connect failed, the second attempt's room
\* connected and then ended, and no further attempt has begun.
NothingRestartedWitness ==
    /\ rstate[1] = "failed" /\ rstate[2] = "ended"
    /\ pc[1] = "done" /\ pc[2] = "done"
    /\ status = ""

\* ---- C17
\* the entries sendTextMessage created
TypedEntries == {h \in DOMAIN entries : entries[h].segmentId[1] = "text-user-"}

\* C17: the key of the entry made for a typed message is not a transport
\* segment id, not an agent item_id, and not the key of another typed
\* message's entry.
TypedKeyNeverShared ==
    \A h \in TypedEntries :
        /\ entries[h].segmentId \notin SegKeys \cup ItemIds
        /\ \A g \in TypedEntries \ {h} : entries[g].segmentId # entries[h].segmentId

\* ---- C18
\* C18: once the setMicrophoneEnabled call of a toggle has settled (whether
\* it succeeded or failed) and none is pending, the microphone button shows
\* the flag of the room it was made on, the current and still connected room.
MicDisplayMirrorsFlag ==
    [][(/\ micCalls # <<>> /\ micCalls' = <<>>
        /\ room = Head(micCalls)[1]
        /\ rstate'[room] = "connected")
          => micUI' = micEnabled'[room]]_vars

\* ---- C19
EventTypes == {"touchstart", "click"}
Blocked(e) == \E type \in EventTypes : <<e, type>> \in listeners
\* a click (on the start or stop button, or elsewhere) or a touchstart
DocumentEvent(type) ==
    \/ Gesture(type)
    \/ type = "click" /\ (StartClick \/ StopClick)

\* C19: an audio element whose first play() was rejected has its resume
\* registered for touchstart and for click; the next touchstart or click on
\* the document calls play() once more on every such element, all of them in
\* the same step, and leaves none of their listeners registered; play() is
\* retried in no other step, and so at most once per element.
AutoplayRecovery ==
    /\ [](\A e \in Tracks :
             /\ <<e, "click">> \in listeners <=> <<e, "touchstart">> \in listeners
             /\ retries[e] <= 1
             /\ Blocked(e) => (retries[e] = 0 /\ e \in subscribed /\ e \notin playing))
    /\ [][\A type \in EventTypes :
             DocumentEvent(type)
                 => \A e \in Tracks :
                        IF Blocked(e)
                        THEN retries'[e] = retries[e] + 1 /\ ~Blocked(e)'
                        ELSE retries'[e] = retries[e]]_vars
    /\ [][\A e \in Tracks :
             /\ retries'[e] # retries[e] => (Blocked(e) /\ ~Blocked(e)')
             /\ (~Blocked(e) /\ Blocked(e)') => (e \in playing /\ e \notin playing')]_vars

\* C19 witness: both tracks were blocked, each was retried once, and no
\* listener is left.
BothRetriedWitness ==
    /\ retries["t1"] = 1 /\ retries["t2"] = 1
    /\ listeners = {}
    /\ playing = {}

\* ---- C20
\* C20: the status never goes from connected to error: the error state is
\* not entered once the session has been shown as connected.
NoErrorAfterConnected ==
    [][status = "connected" => status' # "error"]_vars

\* ---------------------------------------------------------------- C21
\* the typed messages the user can have sent, as typed and as trimmed
TypedPayloads == TypedTexts \cup {Trim(t) : t \in TypedTexts}

\* C21 as stated: every message published for a typed message is on the
\* data-channel topic "chat" and carries the text of the user's message.
PublishedOnChat ==
    \A i \in 1..Len(published) :
        published[i][1] = "chat" /\ published[i][2] \in TypedPayloads

\* C21: a typed message sent while connected is published at most once, on
\* the topic "grok.chat", with the trimmed text shown in its transcript entry
\* as the whole payload: a step that publishes appends exactly one message and
\* adds the typed entry carrying that text, and nothing is published without a
\* typed entry.
PublishedOnGrokChat ==
    /\ [][Len(published') > Len(published) =>
            /\ Len(published') = Len(published) + 1
            /\ SubSeq(published', 1, Len(published)) = published
            /\ \E h \in DOMAIN entries' \ DOMAIN entries :
                  /\ entries'[h].segmentId[1] = "text-user-"
                  /\ published'[Len(published')] = <<"grok.chat", entries'[h].text>>
            /\ \E t \in TypedTexts : published'[Len(published')][2] = Trim(t)]_vars
    /\ [](Len(published) <= Cardinality(TypedEntries))
    /\ [][\A t \in TypedTexts : SendText(t, TRUE) =>
            Len(published') = Len(published) + 1]_vars

\* a typed message has been shown and published
TypedPublishedWitness ==
    /\ published = <<<<"grok.chat", "hi">>>>
    /\ \E h \in TypedEntries : h \in Elems(dom) /\ entries[h].text = "hi"

\* ---------------------------------------------------------------- C22
\* the transcript after the local participant's segments with the unknown ids
\* i1 then i2 have arrived, in two events or in one
AfterTwoUtterances(i1, i2) ==
    {handleTranscription(
         handleTranscription(TState, <<Seg(i1, "hello", TRUE)>>, LocalIdentity,
                             localParticipantIdentity),
         <<Seg(i2, "hel", FALSE)>>, LocalIdentity, localParticipantIdentity),
     handleTranscription(TState, <<Seg(i1, "hello", TRUE), Seg(i2, "hel", FALSE)>>,
                         LocalIdentity, localParticipantIdentity)}

\* C22: after two user entries have been created from the local participant's
\* segments T1 then T2 with no completed message in between, the pending
\* reference is the T2 entry; a completed message with a non-empty transcript
\* and an item_id that is no key then sets the T2 entry's text, files the T2
\* entry under the item_id, creates nothing and leaves the T1 entry as it was.
CorrectionGoesToLatestUtterance ==
    \A i1 \in SegIds, i2 \in SegIds, m \in CompletedMsgs :
        (/\ i1 # i2
         /\ localParticipantIdentity = LocalIdentity
         /\ ExtId(i1) \notin DOMAIN segmentElements
         /\ ExtId(i2) \notin DOMAIN segmentElements
         /\ m.data.transcript # ""
         /\ m.data.item_id \notin {NoId, ExtId(i1), ExtId(i2)}
         /\ m.data.item_id \notin DOMAIN segmentElements)
        => \A T2 \in AfterTwoUtterances(i1, i2) :
              LET E1 == T2.segmentElements[ExtId(i1)]
                  E2 == T2.segmentElements[ExtId(i2)]
                  T3 == handleDataMessage(T2, m, now).T
              IN  /\ E1 # E2
                  /\ T2.entries[E1].role = "user" /\ T2.entries[E2].role = "user"
                  /\ T2.lastUserSpeechEntry = E2
                  /\ T3.dom = T2.dom
                  /\ DOMAIN T3.entries = DOMAIN T2.entries
                  /\ T3.entries[E2].text = m.data.transcript
                  /\ ~T3.entries[E2].interim
                  /\ T3.segmentElements[m.data.item_id] = E2
                  /\ T3.entries[E1] = T2.entries[E1]
                  /\ T3.lastUserSpeechEntry = Null

\* two utterances s1 then s2 were transcribed, and the completed message p1
\* was applied to the second: the first still reads what its segment said
SecondCorrectedWitness ==
    /\ Len(dom) = 2
    /\ ExtId("s1") \in DOMAIN segmentElements
    /\ ExtId("s2") \in DOMAIN segmentElements
    /\ ExtId("p1") \in DOMAIN segmentElements
    /\ segmentElements[ExtId("s1")] = dom[1]
    /\ segmentElements[ExtId("s2")] = dom[2]
    /\ segmentElements[ExtId("p1")] = dom[2]
    /\ entries[dom[1]].role = "user" /\ entries[dom[2]].role = "user"
    /\ entries[dom[1]].text = "hello"
    /\ entries[dom[2]].text = "Hello there"
    /\ lastUserSpeechEntry = Null

\* ---------------------------------------------------------------- C23
\* the steps of one start attempt, in the order startSession takes them; an
\* attempt leaves a step for the next one on success and for "done" on failure
StepOrder ==
    {<<"idle", "key">>, <<"key", "mic">>, <<"mic", "fetch">>, <<"fetch", "json">>,
     <<"json", "connect">>, <<"connect", "publish">>, <<"publish", "done">>}
        \cup {<<s, "done">> : s \in {"key", "mic", "fetch", "json", "connect"}}

\* C23: every start attempt resolves the credentials, then acquires the
\* microphone, then requests the token, then creates the transport object with
\* all six event handlers registered, then calls connect, each step only after
\* the one before it succeeded: the token is requested only by an attempt whose
\* capture was granted, a transport object exists only for an attempt that has
\* read its token, and every transport object that exists has a handler for
\* each event, so no event arrives unhandled.
StartStepsInOrder ==
    /\ [][\A a \in Attempts :
            /\ pc'[a] # pc[a] => <<pc[a], pc'[a]>> \in StepOrder
            /\ pc'[a] = "fetch" /\ pc[a] # "fetch" => pc[a] = "mic"
            /\ (rstate[a] = "none" /\ rstate'[a] # "none")
                  => /\ pc[a] = "json" /\ pc'[a] = "connect"
                     /\ rstate'[a] = "connecting"
                     /\ handlers'[a] = RoomEvents]_vars
    /\ [](\A a \in Attempts :
            /\ pc[a] \in {"idle", "key", "mic", "fetch", "json"} => rstate[a] = "none"
            /\ rstate[a] # "none" => handlers[a] = RoomEvents
            /\ rstate[a] = "none" => handlers[a] = {})

\* an attempt went through every step and its room, with its handlers, connected
AllStepsTakenWitness ==
    /\ pc[1] = "done" /\ rstate[1] = "connected" /\ status = "connected"
    /\ handlers[1] = RoomEvents
    /\ toast = MsgSuccess

\* ---------------------------------------------------------------- C24
\* participant p is named by the event and its identity is the recorded one
FromLocalParticipant(p) == p # NoIdentity /\ p = localParticipantIdentity

\* C24: a segment with an unknown id creates one entry whose role is user when
\* the originating participant's identity is the recorded local identity and
\* assistant otherwise; the pending reference becomes the new entry when the
\* role is user, whatever it was before, and keeps its value when the role is
\* assistant.  A segment with a known id changes neither the role of its entry
\* nor the pending reference.
RoleAndPendingBySegment ==
    \A s \in Segments, p \in Participants :
        LET T == AfterSegments(<<s>>, p)
            h == Fresh(TState)
        IN  IF s.id \notin DOMAIN segmentElements
            THEN /\ Creates(T, s.id)
                 /\ T.entries[h].role =
                        IF FromLocalParticipant(p) THEN "user" ELSE "assistant"
                 /\ T.lastUserSpeechEntry =
                        IF FromLocalParticipant(p) THEN h ELSE lastUserSpeechEntry
            ELSE /\ OnlyChanges(T, segmentElements[s.id])
                 /\ T.entries[segmentElements[s.id]].role
                        = entries[segmentElements[s.id]].role
                 /\ T.lastUserSpeechEntry = lastUserSpeechEntry

\* a user entry was pending when a remote participant's segment made an
\* assistant entry: the user entry is still the pending one
PendingKeptWitness ==
    /\ Len(dom) = 2
    /\ entries[dom[1]].role = "user"
    /\ entries[dom[2]].role = "assistant"
    /\ entries[dom[2]].segmentId \in SegKeys
    /\ lastUserSpeechEntry = dom[1]

\* ---------------------------------------------------------------- C25
\* message m's item_id is a key; E is the entry filed under it
KnownItem(m) == m.data.item_id # NoId /\ m.data.item_id \in DOMAIN segmentElements

\* the entry filed under m's item_id reads m's transcript and is final, and
\* nothing else has changed
CompletedApplied(m) ==
    LET E == segmentElements[m.data.item_id]
        T == AfterMessage(m)
    IN  /\ OnlyChanges(T, E)
        /\ T.entries[E].text = m.data.transcript
        /\ T.entries[E].bubble = m.data.transcript
        /\ ~T.entries[E].interim
        /\ T.entries[E].role = entries[E].role
        /\ T.segmentElements = segmentElements
        /\ T.lastUserSpeechEntry = lastUserSpeechEntry

\* C25 as stated: a completed message whose item_id is a key sets that
\* entry's text to the transcript and marks it final, whatever transcript the
\* message carries, and creates no entry.
CompletedKnownAnyTranscript ==
    \A m \in CompletedMsgs : KnownItem(m) => CompletedApplied(m)

\* C25: a completed message whose item_id is a key and whose transcript is
\* not empty sets that entry's text to the transcript and marks it final, and
\* creates no entry; with an empty (or absent) transcript the message changes
\* nothing.
CompletedKnown ==
    \A m \in CompletedMsgs :
        KnownItem(m) =>
            IF m.data.transcript # "" THEN CompletedApplied(m)
            ELSE AfterMessage(m) = TState

\* the entry made by a local segment with id s2 was corrected by a completed
\* message with item_id s2: it is final, reads the transcript, and is still
\* the pending entry
KnownCorrectedWitness ==
    /\ ExtId("s2") \in DOMAIN segmentElements
    /\ entries[segmentElements[ExtId("s2")]].segmentId = ExtId("s2")
    /\ entries[segmentElements[ExtId("s2")]].text = "Hello there"
    /\ ~entries[segmentElements[ExtId("s2")]].interim
    /\ lastUserSpeechEntry = segmentElements[ExtId("s2")]

NoIdMsgs == {m \in Recognized : m.data.item_id = NoId}
\* the text a message carries
Content(m) == IF m.data.type = TypeDelta THEN m.data.delta ELSE m.data.transcript

\* C27 as stated: a message of a recognized type without item_id creates no
\* entry, changes no entry's text or final flag, and leaves the pending
\* reference as it is.
MissingIdIgnored ==
    \A m \in NoIdMsgs :
        LET T == AfterMessage(m)
        IN  /\ T.dom = dom
            /\ DOMAIN T.entries = DOMAIN entries
            /\ \A h \in DOMAIN entries :
                  /\ T.entries[h].text = entries[h].text
                  /\ T.entries[h].interim = entries[h].interim
            /\ T.lastUserSpeechEntry = lastUserSpeechEntry

\* C27: a message of a recognized type without item_id is handled as the same
\* message carrying the key "user-<now>" (completed) or "grok-<now>" (delta,
\* done) as its item_id: a completed message with a transcript corrects and
\* consumes the pending entry when there is one, and a message with a text
\* whose key is new, no entry being pending for a completed one, creates an
\* entry filed under that key.
MissingIdUsesFallbackKey ==
    \A m \in NoIdMsgs :
        LET T == AfterMessage(m)
            id == MsgKey(m)
        IN  /\ id[1] = IF m.data.type = TypeCompleted THEN "user-" ELSE "grok-"
            /\ id[2] = now
            /\ T = AfterMessage([m EXCEPT !.data.item_id = id])
            /\ (/\ m.data.type = TypeCompleted /\ Content(m) # ""
                /\ id \notin DOMAIN segmentElements
                /\ lastUserSpeechEntry # Null)
               => /\ OnlyChanges(T, lastUserSpeechEntry)
                  /\ T.entries[lastUserSpeechEntry].text = Content(m)
                  /\ ~T.entries[lastUserSpeechEntry].interim
                  /\ T.segmentElements[id] = lastUserSpeechEntry
                  /\ T.lastUserSpeechEntry = Null
            /\ (/\ Content(m) # ""
                /\ id \notin DOMAIN segmentElements
                /\ m.data.type = TypeCompleted => lastUserSpeechEntry = Null)
               => /\ Creates(T, id)
                  /\ T.entries[Fresh(TState)].text = Content(m)
                  /\ T.entries[Fresh(TState)].role =
                        IF m.data.type = TypeCompleted THEN "user" ELSE "assistant"

\* a completed message without item_id corrected the pending entry of segment
\* s1, which is now filed under "user-0" as well
FallbackKeyWitness ==
    /\ Len(dom) = 1
    /\ DOMAIN segmentElements = {ExtId("s1"), Key("user-", 0)}
    /\ segmentElements[Key("user-", 0)] = dom[1]
    /\ segmentElements[ExtId("s1")] = dom[1]
    /\ entries[dom[1]].text = "Hello there"
    /\ lastUserSpeechEntry = Null

\* ---------------------------------------------------------------- C28
\* C28 as stated: after every sequence of transport segments, protocol
\* messages, typed messages and clears, the single map shows the same entries,
\* in the same order and with the same roles, texts and final flags, as the
\* specified pair of tables.
SingleMapEquivalent == tables.agree /\ Shown = tables.entries

\* ---------------------------------------------------------------- C29
\* the start attempts that have begun and not finished
InProgress == {a \in Attempts : pc[a] \notin {"idle", "done"}}
\* the attempts that hold capture tracks: createLocalTracks resolved for them
HoldingTracks == {a \in Attempts : pc[a] \in {"fetch", "json", "connect", "publish"}}
\* the transport objects that are connecting or connected
Live == {r \in Attempts : rstate[r] \in {"connecting", "connected"}}

\* C29 as stated: at most one start attempt is in progress, at most one
\* attempt holds capture tracks, at most one transport object is live, and a
\* connected transport object is the one the global `room` refers to.
OneAttemptOneConnection ==
    /\ Cardinality(InProgress) <= 1
    /\ Cardinality(HoldingTracks) <= 1
    /\ Cardinality(Live) <= 1
    /\ \A r \in Attempts : rstate[r] = "connected" => room = r

\* ---------------------------------------------------------------- C30
\* room r is left over from a failed attempt: attempt r connected it, failed
\* to publish its track, and has ended with the room still connected
LeftFromFailedAttempt(r) ==
    /\ pc[r] = "done" /\ rstate[r] = "connected"
    /\ pubRoom[r] = r /\ ~micEnabled[r]
\* a later attempt's session is connecting or connected
LaterSession(r) ==
    /\ room # Null /\ room > r
    /\ rstate[room] \in {"connecting", "connected"}
    /\ status \in {"connecting", "connected"}

\* C30: while a later session is connecting or connected, an event of a room
\* left over from a failed attempt changes nothing of it: Disconnected leaves
\* the status, the buttons, the text input, the identity and the audio
\* elements as they are, and TranscriptionReceived and DataReceived add no
\* transcript entry.
StaleRoomEventsInert ==
    [][\A r \in Attempts :
          (LeftFromFailedAttempt(r) /\ LaterSession(r))
          => /\ RoomDisconnected(r)
                => UNCHANGED <<status, buttonsConnected, textInputVisible,
                               localParticipantIdentity, audio>>
             /\ (\E b \in SessionBatches, p \in Participants :
                     TranscriptionReceived(r, b, p)) => UNCHANGED dom
             /\ (\E m \in SessionPayloads : DataReceived(r, m)) => UNCHANGED dom]_vars

\* ---------------------------------------------------------------- C31
\* texts sendTextMessage may be called with: empty, blank, padded, plain
SentTexts == {"", " ", " hi ", "hi"}

\* C31: sendTextMessage called with an empty or blank text, or while `room`
\* is unset or not connected, leaves the transcript and the published
\* messages as they are; called with a non-blank text while connected it
\* appends exactly one final user entry carrying the trimmed text, whether or
\* not publishData returns, and publishes only when it returns.
SendTextFrame ==
    \A text \in SentTexts, connected \in BOOLEAN, publishOk \in BOOLEAN :
        LET res == sendTextMessageOn(TState, published, toast, text, connected,
                                     publishOk, now)
            h == Fresh(TState)
        IN  IF Trim(text) = "" \/ ~connected
            THEN /\ res.T = TState
                 /\ res.published = published
            ELSE /\ Creates(res.T, Key("text-user-", now))
                 /\ res.T.entries[h].role = "user"
                 /\ res.T.entries[h].text = Trim(text)
                 /\ res.T.entries[h].bubble = Trim(text)
                 /\ ~res.T.entries[h].interim
                 /\ res.T.lastUserSpeechEntry = lastUserSpeechEntry
                 /\ ~publishOk => res.published = published

\* a typed message is in the transcript though its publish failed
UnpublishedTypedWitness ==
    /\ published = <<>>
    /\ toast = MsgSendFailed
    /\ Len(dom) = 1
    /\ dom[1] \in TypedEntries
    /\ entries[dom[1]].role = "user"
    /\ entries[dom[1]].text = "hi"
    /\ ~entries[dom[1]].interim

====
